---- MODULE Spec2Model ----
(***************************************************************************)
(* Model of the allama benchmark driver: LLMTester (src/allama/main.py),   *)
(* its CodeEvaluator, the report statistics of main.py, test_runner.py and *)
(* report_generator.py, and AdvancedLLMTester.load_custom_config.          *)
(*                                                                         *)
(* The network transport, the Python parser and the child interpreter are  *)
(* the environment: a snippet is a record of what the parser and the child *)
(* do with it, an exchange is what make_request returned.                  *)
(* Rational numbers (means, rates) are records [num, den] with den > 0.    *)
(*                                                                         *)
(* Spec is the run from load_custom_config on; ReportSpec is the report    *)
(* stage on the results of a finished run of up to MaxReportLen records;   *)
(* EvaluatorSpec is one call on a CodeEvaluator, with texts as sequences   *)
(* of characters.                                                          *)
(***************************************************************************)
EXTENDS Integers, Sequences, FiniteSets, TLC

VARIABLES pc, TIMEOUTS, test_prompts, results, attempts, fs, created, last, report

vars == <<pc, TIMEOUTS, test_prompts, results, attempts, fs, created, last, report>>

(***************************************************************************)
(* Bounds and program constants                                            *)
(***************************************************************************)
\* cap on the number of test_model calls of one run
MaxResults == 2

\* subprocess.run(..., timeout=10)
ExecTimeoutLiteral == 10

\* TIMEOUTS["execution_timeout"] of config.py
DefaultExecutionTimeout == 10

\* the message of the TimeoutExpired handler (diacritics dropped)
TimeoutMsg == "Timeout - kod wykonywal sie zbyt dlugo"

\* model_name column of models.csv
Models == <<"A", "B">>

ModelSet == {Models[i] : i \in 1..Len(Models)}

(***************************************************************************)
(* Rationals                                                               *)
(***************************************************************************)
Rat(n, d) == [num |-> n, den |-> d]

Zero == Rat(0, 1)

RatEq(a, b) == a.num * b.den = b.num * a.den

RatGt(a, b) == a.num * b.den > b.num * a.den

RECURSIVE SumSeq(_)
SumSeq(s) == IF s = <<>> THEN 0 ELSE Head(s) + SumSeq(Tail(s))

\* sum(xs) / len(xs) if xs else 0
Mean(xs) == IF xs = <<>> THEN Zero ELSE Rat(SumSeq(xs), Len(xs))

RatAdd(a, b) == Rat(a.num * b.den + b.num * a.den, a.den * b.den)

RECURSIVE SumRat(_)
SumRat(s) == IF s = <<>> THEN Zero ELSE RatAdd(Head(s), SumRat(Tail(s)))

\* sum(scores) / len(scores) if scores else 0, over float scores
MeanRat(xs) ==
    IF xs = <<>> THEN Zero
    ELSE LET t == SumRat(xs) IN Rat(t.num, t.den * Len(xs))

\* key in record
HasKey(r, k) == k \in DOMAIN r

(***************************************************************************)
(* Python exception classes met by the evaluator                           *)
(***************************************************************************)
NoExc == "none"

ExcParent ==
    [SyntaxError |-> "Exception", UnicodeEncodeError |-> "ValueError",
     ValueError |-> "Exception", MemoryError |-> "Exception",
     FileNotFoundError |-> "OSError", OSError |-> "Exception",
     TimeoutExpired |-> "SubprocessError", SubprocessError |-> "Exception",
     KeyError |-> "LookupError", LookupError |-> "Exception",
     Exception |-> "BaseException"]

RECURSIVE IsInstance(_, _)
\* isinstance(e, cls) for an exception of class exc
IsInstance(exc, cls) ==
    IF exc = cls THEN TRUE
    ELSE IF exc \in DOMAIN ExcParent THEN IsInstance(ExcParent[exc], cls)
    ELSE FALSE

(***************************************************************************)
(* Snippets: what the parser and the child interpreter do with the text    *)
(*   parse   outcome of ast.parse: "ok" or the class it raises             *)
(*   dur     seconds the child runs (Forever: it never ends by itself)     *)
(*   exit    exit status of the child                                      *)
(*   unlinks the child removes its own source file before it exits         *)
(*   kw      the prompt_keywords that occur in the lower-cased text        *)
(***************************************************************************)
Forever == 1000

\* def add(a, b):
\*     """function"""
\*     return a + b
\* print(add(1, 2))
CodeOk ==
    [name |-> "ok", parse |-> "ok", dur |-> 1, exit |-> 0, out |-> "3",
     err |-> "", unlinks |-> FALSE, kw |-> {"function"},
     line_count |-> 4, has_function_def |-> TRUE, has_class_def |-> FALSE,
     has_docstring |-> TRUE, has_comments |-> FALSE,
     has_error_handling |-> FALSE, imports_used |-> 0]

\* raise ValueError("boom")
CodeFails ==
    [name |-> "fails", parse |-> "ok", dur |-> 1, exit |-> 1, out |-> "",
     err |-> "ValueError: boom", unlinks |-> FALSE, kw |-> {},
     line_count |-> 1, has_function_def |-> FALSE, has_class_def |-> FALSE,
     has_docstring |-> FALSE, has_comments |-> FALSE,
     has_error_handling |-> TRUE, imports_used |-> 0]

\* while True: pass
CodeLoops ==
    [name |-> "loops", parse |-> "ok", dur |-> Forever, exit |-> 0, out |-> "",
     err |-> "", unlinks |-> FALSE, kw |-> {},
     line_count |-> 1, has_function_def |-> FALSE, has_class_def |-> FALSE,
     has_docstring |-> FALSE, has_comments |-> FALSE,
     has_error_handling |-> FALSE, imports_used |-> 0]

\* import sys; sys.stderr.write("Timeout - kod ..."); sys.exit(1)
CodeFakeTimeout ==
    [name |-> "fake_timeout", parse |-> "ok", dur |-> 1, exit |-> 1, out |-> "",
     err |-> TimeoutMsg, unlinks |-> FALSE, kw |-> {},
     line_count |-> 1, has_function_def |-> FALSE, has_class_def |-> FALSE,
     has_docstring |-> FALSE, has_comments |-> FALSE,
     has_error_handling |-> FALSE, imports_used |-> 1]

\* import os; os.remove(__file__)
CodeSelfDelete ==
    [name |-> "self_delete", parse |-> "ok", dur |-> 1, exit |-> 0, out |-> "",
     err |-> "", unlinks |-> TRUE, kw |-> {},
     line_count |-> 1, has_function_def |-> FALSE, has_class_def |-> FALSE,
     has_docstring |-> FALSE, has_comments |-> FALSE,
     has_error_handling |-> FALSE, imports_used |-> 1]

\* def f(:
CodeBadSyntax ==
    [name |-> "bad_syntax", parse |-> "SyntaxError", dur |-> 1, exit |-> 1,
     out |-> "", err |-> "SyntaxError", unlinks |-> FALSE, kw |-> {},
     line_count |-> 1, has_function_def |-> TRUE, has_class_def |-> FALSE,
     has_docstring |-> FALSE, has_comments |-> FALSE,
     has_error_handling |-> FALSE, imports_used |-> 0]

\* a text holding a lone surrogate (JSON "\ud800"): ast.parse cannot encode it
CodeSurrogate ==
    [name |-> "surrogate", parse |-> "UnicodeEncodeError", dur |-> 1, exit |-> 1,
     out |-> "", err |-> "", unlinks |-> FALSE, kw |-> {},
     line_count |-> 1, has_function_def |-> FALSE, has_class_def |-> FALSE,
     has_docstring |-> FALSE, has_comments |-> FALSE,
     has_error_handling |-> FALSE, imports_used |-> 0]

\* import math
\* def add_user(a, b):
\*     """function"""
\*     try:
\*         return a + b
\*     except Exception:
\*         raise
\* print(add_user(1, 2))
CodeFull ==
    [name |-> "full", parse |-> "ok", dur |-> 1, exit |-> 0, out |-> "3",
     err |-> "", unlinks |-> FALSE, kw |-> {"function", "user"},
     line_count |-> 8, has_function_def |-> TRUE, has_class_def |-> FALSE,
     has_docstring |-> TRUE, has_comments |-> FALSE,
     has_error_handling |-> TRUE, imports_used |-> 1]

\* the empty text (a reply that is empty, or blank, after strip()): ast.parse
\* returns a Module with no statement, and the child runs an empty file
CodeEmpty ==
    [name |-> "empty", parse |-> "ok", dur |-> 1, exit |-> 0, out |-> "",
     err |-> "", unlinks |-> FALSE, kw |-> {},
     line_count |-> 0, has_function_def |-> FALSE, has_class_def |-> FALSE,
     has_docstring |-> FALSE, has_comments |-> FALSE,
     has_error_handling |-> FALSE, imports_used |-> 0]

Codes == {CodeOk, CodeFails, CodeLoops, CodeFakeTimeout, CodeSelfDelete,
          CodeBadSyntax, CodeSurrogate, CodeEmpty}

\* what the host does to check_execution: nothing, or the step that fails
Faults == {"none", "create", "write", "spawn"}

ResponseTimes == {1, 3}

(***************************************************************************)
(* CodeEvaluator                                                           *)
(***************************************************************************)
\* try: ast.parse(code); return True / except SyntaxError: return False
check_syntax(code) ==
    IF code.parse = "ok" THEN [raised |-> NoExc, value |-> TRUE]
    ELSE IF IsInstance(code.parse, "SyntaxError") THEN [raised |-> NoExc, value |-> FALSE]
    ELSE [raised |-> code.parse, value |-> FALSE]

\* str(e): the class name stands for the message
StrOf(exc) == exc

\* the body of the try block of check_execution, up to its return or raise:
\*   exc      the exception that leaves the body (NoExc: it returned value)
\*   made     NamedTemporaryFile created the file `name`
\*   spawned  subprocess.run started the child
\*   killed   subprocess.run killed the child on its timeout
\*   left     the file `name` still exists when the body is left
\*   bound    the timeout subprocess.run was given
\*   child    what the child does when it is left alone
ExecutionBody(code, fault, name) ==
    LET base == [exc |-> NoExc, value |-> <<FALSE, "">>, made |-> FALSE,
                 spawned |-> FALSE, killed |-> FALSE, left |-> FALSE,
                 file |-> name, bound |-> ExecTimeoutLiteral,
                 child |-> [dur |-> code.dur, exit |-> code.exit,
                            out |-> code.out, err |-> code.err]]
    IN  IF fault = "create" THEN [base EXCEPT !.exc = "OSError"]
        ELSE IF fault = "write"
            THEN [base EXCEPT !.exc = "OSError", !.made = TRUE, !.left = TRUE]
        ELSE IF fault = "spawn"
            THEN [base EXCEPT !.exc = "FileNotFoundError", !.made = TRUE, !.left = TRUE]
        ELSE IF code.dur > ExecTimeoutLiteral
            THEN [base EXCEPT !.exc = "TimeoutExpired", !.made = TRUE, !.left = TRUE,
                              !.spawned = TRUE, !.killed = TRUE]
        ELSE IF code.unlinks
            \* os.unlink(temp_file) finds no file
            THEN [base EXCEPT !.exc = "FileNotFoundError", !.made = TRUE,
                              !.spawned = TRUE]
        ELSE [base EXCEPT !.made = TRUE, !.spawned = TRUE,
                          !.value = IF code.exit = 0 THEN <<TRUE, code.out>>
                                    ELSE <<FALSE, code.err>>]

\* check_execution with `except subprocess.TimeoutExpired` as its only clause
ExecutionHandlersTimeoutOnly(exc) ==
    IF IsInstance(exc, "TimeoutExpired")
        THEN [caught |-> TRUE, value |-> <<FALSE, TimeoutMsg>>]
    ELSE [caught |-> FALSE, value |-> <<FALSE, "">>]

\* check_execution with `except Exception` as its only clause
ExecutionHandlersCatchAllOnly(exc) ==
    IF IsInstance(exc, "Exception")
        THEN [caught |-> TRUE, value |-> <<FALSE, StrOf(exc)>>]
    ELSE [caught |-> FALSE, value |-> <<FALSE, "">>]

\* the except clauses of check_execution, in order
ExecutionHandlers(exc) ==
    IF IsInstance(exc, "TimeoutExpired")
        THEN [caught |-> TRUE, value |-> <<FALSE, TimeoutMsg>>]
    ELSE IF IsInstance(exc, "Exception")
        THEN [caught |-> TRUE, value |-> <<FALSE, StrOf(exc)>>]
    ELSE [caught |-> FALSE, value |-> <<FALSE, "">>]

\* check_execution(code) on a host with the given fault; `name` is the fresh
\* name NamedTemporaryFile picks. The record is the trace of the call:
\* body is what the try block did, raised the exception the caller sees,
\* value the returned pair.
check_execution(code, fault, name) ==
    LET body == ExecutionBody(code, fault, name)
        h    == ExecutionHandlers(body.exc)
    IN  [called |-> TRUE, body |-> body,
         raised |-> IF body.exc = NoExc \/ h.caught THEN NoExc ELSE body.exc,
         value  |-> IF body.exc = NoExc THEN body.value ELSE h.value]

\* the trace of an evaluation that did not call check_execution
NotExecuted == [called |-> FALSE]

analyze_code_quality(code) ==
    [line_count |-> code.line_count,
     has_function_def |-> code.has_function_def,
     has_class_def |-> code.has_class_def,
     has_docstring |-> code.has_docstring,
     has_comments |-> code.has_comments,
     has_error_handling |-> code.has_error_handling,
     imports_used |-> code.imports_used]

\* prompt_keywords of evaluate_code
prompt_keywords == {"function", "class", "password", "hash", "bcrypt", "user", "animation"}

\* evaluate_code running the snippet whatever check_syntax said
ShouldExecuteAlways(syntax_valid) == TRUE

\* if results['syntax_valid']:
ShouldExecute(syntax_valid) == syntax_valid

\* an evaluate_code that analyses only a snippet that parsed
ShouldAnalyzeWhenValid(syntax_valid) == syntax_valid

\* results['quality_metrics'] = self.analyze_code_quality(code) stands
\* outside the `if results['syntax_valid']:` block
ShouldAnalyze(syntax_valid) == TRUE

\* 'quality_metrics': {} of the initial dictionary: no key
NoMetrics == <<>>

\* keyword fields that count an empty list of expected keywords as no match
keyword_match_strict(n_found, n_expected) ==
    [contains_expected_keywords |-> n_found > 0,
     keyword_match_ratio |-> IF n_expected # 0 THEN Rat(n_found, n_expected) ELSE Zero]

\* contains_expected_keywords and keyword_match_ratio of evaluate_code, from
\* len(found_keywords) and the length of the list the prompt expects
keyword_match(n_found, n_expected) ==
    [contains_expected_keywords |-> IF n_expected # 0 THEN n_found > 0 ELSE TRUE,
     keyword_match_ratio |-> IF n_expected # 0 THEN Rat(n_found, n_expected)
                                              ELSE Rat(1, 1)]

\* evaluate_code(code, prompt, response_time): the exception it raises, the
\* dictionary it returns, and the traces of the calls it made
evaluate_code(code, prompt, response_time, fault, name) ==
    LET syn   == check_syntax(code)
        run   == IF syn.raised = NoExc /\ ShouldExecute(syn.value)
                     THEN check_execution(code, fault, name)
                     ELSE NotExecuted
        ran   == run.called /\ run.raised = NoExc
        relevant_keywords == prompt_keywords \cap prompt.kw
        found_keywords    == relevant_keywords \cap code.kw
        match == keyword_match(Cardinality(found_keywords),
                               Cardinality(relevant_keywords))
        raised == IF syn.raised # NoExc THEN syn.raised
                  ELSE IF run.called THEN run.raised ELSE NoExc
    IN  [raised |-> raised, syntax |-> syn, exec |-> run,
         value |->
            [code |-> code.name,
             response_time |-> response_time,
             syntax_valid |-> syn.value,
             runs_without_error |-> IF ran THEN run.value[1] ELSE FALSE,
             execution_output |-> IF ran THEN run.value[2] ELSE "",
             quality_metrics |-> IF ShouldAnalyze(syn.value)
                                     THEN analyze_code_quality(code) ELSE NoMetrics,
             contains_expected_keywords |-> match.contains_expected_keywords,
             keyword_match_ratio |-> match.keyword_match_ratio]]

(***************************************************************************)
(* LLMTester                                                               *)
(***************************************************************************)
\* self.test_prompts of LLMTester.__init__ (the first and the fourth);
\* kw: the prompt_keywords that occur in the lower-cased prompt
DefaultPrompts ==
    <<[text |-> "Write a Python function that adds two numbers", kw |-> {"function"}],
      [text |-> "Create a simple animation in Python", kw |-> {"animation"}]>>

\* TEST_PROMPTS of config.py (the first two)
TEST_PROMPTS ==
    <<[text |-> "Write a Python function called 'add_numbers'", kw |-> {"function"}],
      [text |-> "Create a Python class called 'User'", kw |-> {"class", "user"}]>>

\* TIMEOUTS of config.py
DefaultTIMEOUTS ==
    [request_timeout |-> 60, execution_timeout |-> DefaultExecutionTimeout,
     delay_between_requests |-> 1]

\* the JSON files load_custom_config may find: none, or one with these keys
NoConfigFile == [exists |-> FALSE]

ConfigFiles ==
    {NoConfigFile,
     [exists |-> TRUE, timeouts |-> [execution_timeout |-> 5]],
     [exists |-> TRUE, test_prompts |-> TEST_PROMPTS]}

\* dict.update
Update(d, u) == [k \in DOMAIN d \cup DOMAIN u |-> IF k \in DOMAIN u THEN u[k] ELSE d[k]]

\* what make_request returns: (text, response_time, success); a successful
\* exchange carries the snippet and the fences around it
FailedExchange(t) == [success |-> FALSE, error |-> "Error: Request timeout", response_time |-> t]

Reply(fence, code, t) ==
    [success |-> TRUE, text |-> [fence |-> fence, code |-> code], response_time |-> t]

Exchanges ==
    {FailedExchange(t) : t \in ResponseTimes}
    \cup {Reply("none", c, 1) : c \in Codes}
    \cup {Reply("none", CodeOk, t) : t \in ResponseTimes}
    \cup {Reply("python", CodeOk, 1)}

\* the (prompt index, exchange, host fault) triples an attempt is run on:
\* the first prompt with every exchange and with every fault of the host,
\* the later prompts with a failed exchange and a good reply
AttemptInputs(prompts) ==
    {<<1, x, "none">> : x \in Exchanges}
    \cup {<<1, Reply("none", CodeOk, 1), f>> : f \in Faults}
    \cup {<<i, x, "none">> : i \in DOMAIN prompts \ {1},
                            x \in {FailedExchange(1), Reply("none", CodeOk, 3)}}

\* the triples the attempts of model m are run on: every one for the first
\* model of models.csv; for the other models a failed exchange, a snippet that
\* runs and one that fails, on a host without fault
ModelInputs(m, prompts) ==
    IF m = Models[1] THEN AttemptInputs(prompts)
    ELSE {a \in AttemptInputs(prompts) :
            /\ a[3] = "none"
            /\ a[2] \in {FailedExchange(1), Reply("none", CodeOk, 3),
                         Reply("none", CodeFails, 1)}}

\* what extract_python_code returns for a response that is the snippet alone
\* (fence "none": the whole text, stripped) or the snippet in one ```python
\* fence on lines of its own; extract_python_code below works on the text
ExtractedSnippet(response_text) ==
    IF response_text.fence = "python" THEN response_text.code
    ELSE response_text.code

\* the text as it is stored in a record
TextOf(response_text) == <<response_text.fence, response_text.code.name>>

NotEvaluated == [raised |-> NoExc, syntax |-> [called |-> FALSE], exec |-> NotExecuted]

\* a failure record that also carries the keys of a success record
FailureRecordWithEvaluation(model, prompt, x) ==
    [model_name |-> model, url |-> model, prompt |-> prompt.text,
     success |-> FALSE, error |-> x.error, response_time |-> x.response_time,
     extracted_code |-> "", evaluation |-> [syntax_valid |-> FALSE]]

\* the dictionary test_model returns if not success
FailureRecord(model, prompt, x) ==
    [model_name |-> model, url |-> model, prompt |-> prompt.text,
     success |-> FALSE, error |-> x.error, response_time |-> x.response_time]

\* test_model(model_config, prompt): the exception it raises, the record it
\* returns and the trace of its evaluation
test_model(model, prompt, x, fault, name) ==
    IF ~x.success
    THEN [raised |-> NoExc, eval |-> NotEvaluated,
          value |-> FailureRecord(model, prompt, x)]
    ELSE LET code == ExtractedSnippet(x.text)
             ev   == evaluate_code(code, prompt, x.response_time, fault, name)
         IN  [raised |-> ev.raised,
              eval |-> [raised |-> ev.raised,
                        syntax |-> [called |-> TRUE, raised |-> ev.syntax.raised,
                                    value |-> ev.syntax.value],
                        exec |-> ev.exec],
              value |-> [model_name |-> model, url |-> model, prompt |-> prompt.text,
                         success |-> TRUE, raw_response |-> TextOf(x.text),
                         extracted_code |-> code.name, evaluation |-> ev.value]]

(***************************************************************************)
(* Statistics                                                              *)
(***************************************************************************)
ModelsOf(res) == {res[i].model_name : i \in DOMAIN res}

Successful(res) == SelectSeq(res, LAMBDA r : r.success)

OfModel(res, m) == SelectSeq(res, LAMBDA r : r.model_name = m)

\* [r[key] for r in rs]
Column(rs, key) == [i \in DOMAIN rs |-> rs[i][key]]

\* some r[key] of rs raises KeyError
LacksKey(rs, key) == \E i \in DOMAIN rs : ~HasKey(rs[i], key)

Points(flag, n) == IF flag THEN n ELSE 0

\* the score of LLMTester._calculate_statistics
MainScore(e) ==
    Points(e.syntax_valid, 2) + Points(e.runs_without_error, 2)
    + Points(e.contains_expected_keywords, 1)
    + Points(e.quality_metrics.has_function_def, 1)
    + Points(e.quality_metrics.has_error_handling, 1)
    + Points(e.quality_metrics.has_docstring, 1)

\* the score of _generate_comparison_report and export_results_to_csv
ComparisonScore(e) ==
    Points(e.syntax_valid, 3) + Points(e.runs_without_error, 2)
    + Points(e.contains_expected_keywords, 2)
    + Points(e.quality_metrics.has_function_def, 1)
    + Points(e.quality_metrics.has_error_handling, 1)
    + Points(e.quality_metrics.has_docstring, 1)

\* [r['evaluation'] for r in rs if 'evaluation' in r]
Evaluations(rs) ==
    LET withEval == SelectSeq(rs, LAMBDA r : HasKey(r, "evaluation"))
    IN  [i \in DOMAIN withEval |-> withEval[i].evaluation]

Range(s) == {s[i] : i \in DOMAIN s}

\* one pass of a scoring loop: the evaluation read and the score computed
Scored(e, score) == [evaluation |-> e, score |-> score]

\* LLMTester._calculate_statistics over self.results = res; scores is the
\* trace of its scoring loop
_calculate_statistics(res) ==
    LET succ   == Successful(res)
        models == ModelsOf(res)
        scored == {m \in models : Successful(OfModel(res, m)) # <<>>}
    IN  IF LacksKey(succ, "response_time") THEN [raised |-> "KeyError", scores |-> {}]
        ELSE [raised |-> NoExc,
              scores |-> {Scored(e, Rat(MainScore(e), 1)) :
                            e \in Range(Evaluations(succ))},
              models |-> models,
              successful_tests |-> Len(succ),
              success_rate |-> IF res # <<>> THEN Rat(Len(succ) * 100, Len(res)) ELSE Zero,
              avg_response_time |-> Mean(Column(succ, "response_time")),
              model_scores |->
                [m \in scored |->
                    LET model_results == Successful(OfModel(res, m))
                    IN  [avg_score |-> Mean([i \in DOMAIN Evaluations(model_results) |->
                                            MainScore(Evaluations(model_results)[i])]),
                         success_rate |->
                            Rat(Len(model_results) * 100, Len(OfModel(res, m))),
                         avg_response_time |->
                            Rat(SumSeq(Column(model_results, "response_time")),
                                Len(model_results))]]]

\* the statistics of AdvancedLLMTester._generate_comparison_report. The loop
\* over model_names (here in the order of models.csv) ends at the first model
\* whose entry raises; scores is the trace of its scoring loop.
_generate_comparison_report(res, model_names) ==
    LET names   == SelectSeq(Models, LAMBDA m : m \in model_names)
        listed  == {m \in model_names : OfModel(res, m) # <<>>}
        raisers == {i \in DOMAIN names :
                      /\ names[i] \in listed
                      /\ LacksKey(Successful(OfModel(res, names[i])), "response_time")}
        stop    == IF raisers = {} THEN Len(names)
                   ELSE CHOOSE i \in raisers : \A j \in raisers : i <= j
        visited == {names[i] : i \in 1..stop} \cap listed
        scores  == UNION {{Scored(e, Rat(ComparisonScore(e), 1)) :
                             e \in Range(Evaluations(Successful(OfModel(res, m))))} :
                          m \in visited}
        model_stats ==
            [m \in listed |->
                LET model_results == OfModel(res, m)
                    successful    == Successful(model_results)
                IN  [total_tests |-> Len(model_results),
                     successful_tests |-> Len(successful),
                     success_rate |-> Rat(Len(successful) * 100, Len(model_results)),
                     avg_score |-> Mean([i \in DOMAIN Evaluations(successful) |->
                                        ComparisonScore(Evaluations(successful)[i])]),
                     avg_response_time |->
                        IF successful # <<>>
                            THEN Rat(SumSeq(Column(successful, "response_time")),
                                     Len(successful))
                            ELSE Zero]]
    IN  IF raisers # {} THEN [raised |-> "KeyError", scores |-> scores]
        \* max() and min() of an empty sequence
        ELSE IF listed = {} THEN [raised |-> "ValueError", scores |-> scores]
        ELSE IF \A m \in listed : ~RatGt(model_stats[m].avg_response_time, Zero)
            THEN [raised |-> "ValueError", scores |-> scores]
        ELSE [raised |-> NoExc, scores |-> scores, model_stats |-> model_stats]

\* evaluation_weights of DEFAULT_CONFIG, in tenths
evaluation_weights ==
    [syntax_valid |-> 30, runs_without_error |-> 25, contains_expected_keywords |-> 20,
     has_function_def |-> 15, has_error_handling |-> 10, has_docstring |-> 10,
     has_imports |-> 5, code_length_reasonable |-> 5]

\* DEFAULT_CONFIG of config_loader.py: the key ReportGenerator scores with
DEFAULT_CONFIG == [evaluation_weights |-> evaluation_weights]

\* a config.json that has no evaluation_weights key
NoTableConfig == [prompts_file |-> "prompts.json"]

\* a config.json with its own table: syntax_valid=1.0, keyword_match_ratio=2.0
CustomConfig == [evaluation_weights |-> [syntax_valid |-> 10, keyword_match_ratio |-> 20]]

\* the dictionaries a ReportGenerator is constructed with
GeneratorConfigs == {DEFAULT_CONFIG, NoTableConfig, CustomConfig}

\* the default of self.config.get('evaluation_weights', {...}), in tenths
FallbackWeights ==
    [correctness |-> 4, efficiency |-> 2, robustness |-> 2, maintainability |-> 2]

\* self.config.get('evaluation_weights', {...})
WeightsOf(config) ==
    IF HasKey(config, "evaluation_weights") THEN config.evaluation_weights
    ELSE FallbackWeights

\* the keys of an evaluation whose value is a float in [0, 1]
RatioSignals == {"keyword_match_ratio"}

\* evaluation[key] * weight, for the keys the tables above share with an
\* evaluation: a bool (True is 1) or a ratio
Weighted(evaluation, key, weight) ==
    IF key \in RatioSignals
        THEN Rat(evaluation[key].num * weight, evaluation[key].den)
        ELSE Rat(Points(evaluation[key], weight), 1)

\* ReportGenerator._calculate_score, in tenths: the weight-table keys that are
\* keys of the evaluation dictionary itself
_calculate_score(evaluation, config) ==
    LET weights == WeightsOf(config)
        keys == DOMAIN weights \cap DOMAIN evaluation
        RECURSIVE Sum(_)
        Sum(ks) == IF ks = {} THEN Zero
                   ELSE LET k == CHOOSE k \in ks : TRUE
                        IN  RatAdd(Weighted(evaluation, k, weights[k]), Sum(ks \ {k}))
    IN  Sum(keys)

\* r.get('response_time', 0)
GetResponseTime(r) == IF HasKey(r, "response_time") THEN r.response_time ELSE 0

\* tenths to units
Tenths(x) == Rat(x.num, x.den * 10)

\* ReportGenerator._calculate_statistics(results) of a generator constructed
\* with config; scores is the trace of its scoring loop
ReportGenerator_calculate_statistics(res, config) ==
    LET succ   == Successful(res)
        models == ModelsOf(res)
        scored == {m \in models : Successful(OfModel(res, m)) # <<>>}
    IN  [raised |-> NoExc,
         scores |-> {Scored(e, Tenths(_calculate_score(e, config))) :
                        e \in Range(Evaluations(succ))},
         models |-> models,
         successful_tests |-> Len(succ),
         success_rate |-> IF res # <<>> THEN Rat(Len(succ) * 100, Len(res)) ELSE Zero,
         avg_response_time |-> Mean([i \in DOMAIN succ |-> GetResponseTime(succ[i])]),
         model_scores |->
            [m \in scored |->
                LET evals == Evaluations(Successful(OfModel(res, m)))
                IN  MeanRat([i \in DOMAIN evals |-> _calculate_score(evals[i], config)])]]

(***************************************************************************)
(* Ranking                                                                 *)
(***************************************************************************)
\* the orders in which a set (and the dictionary filled from it) is iterated
Orders(S) ==
    {o \in [1..Cardinality(S) -> S] : \A i, j \in DOMAIN o : o[i] = o[j] => i = j}

RECURSIVE sorted_models_ascending(_)
\* sorted(items, key=...) without reverse=True
sorted_models_ascending(items) ==
    IF items = <<>> THEN <<>>
    ELSE LET front == sorted_models_ascending(SubSeq(items, 1, Len(items) - 1))
             x     == items[Len(items)]
             p     == Cardinality({i \in DOMAIN front : ~RatGt(front[i].key, x.key)})
         IN  SubSeq(front, 1, p) \o <<x>> \o SubSeq(front, p + 1, Len(front))

RECURSIVE sorted_models(_)
\* sorted(items, key=..., reverse=True): descending by key, items of equal
\* key in the order they had in items
sorted_models(items) ==
    IF items = <<>> THEN <<>>
    ELSE LET front == sorted_models(SubSeq(items, 1, Len(items) - 1))
             x     == items[Len(items)]
             p     == Cardinality({i \in DOMAIN front : ~RatGt(x.key, front[i].key)})
         IN  SubSeq(front, 1, p) \o <<x>> \o SubSeq(front, p + 1, Len(front))

\* for i, (model, data) in enumerate(sorted_models, 1): the rows of the table
Enumerate(s) ==
    [i \in DOMAIN s |-> [position |-> i, model |-> s[i].model, data |-> s[i].data]]

\* LLMTester._generate_ranking_table(stats); order is the order of the keys
\* of model_scores
_generate_ranking_table(stats, order) ==
    LET keys  == SelectSeq(order, LAMBDA m : m \in DOMAIN stats.model_scores)
        items == [i \in DOMAIN keys |->
                    [model |-> keys[i], key |-> stats.model_scores[keys[i]].avg_score,
                     data |-> stats.model_scores[keys[i]]]]
    IN  Enumerate(sorted_models(items))

\* ReportGenerator._generate_ranking_table(stats)
ReportGenerator_generate_ranking_table(stats, order) ==
    LET keys  == SelectSeq(order, LAMBDA m : m \in DOMAIN stats.model_scores)
        items == [i \in DOMAIN keys |->
                    [model |-> keys[i], key |-> stats.model_scores[keys[i]],
                     data |-> stats.model_scores[keys[i]]]]
    IN  IF keys = <<>> THEN <<>> ELSE Enumerate(sorted_models(items))

(***************************************************************************)
(* The state machine                                                       *)
(***************************************************************************)
NoReport == [kind |-> "none"]

NoAttempt == [model |-> "none"]

\* AdvancedLLMTester.__init__ before load_custom_config
Init ==
    /\ pc = "init"
    /\ TIMEOUTS = DefaultTIMEOUTS
    /\ test_prompts = DefaultPrompts
    /\ results = <<>>
    /\ attempts = <<>>
    /\ fs = {}
    /\ created = 0
    /\ last = NoAttempt
    /\ report = NoReport

\* AdvancedLLMTester.load_custom_config
LoadCustomConfig(config) ==
    /\ pc = "init"
    /\ pc' = "testing"
    /\ test_prompts' =
         IF config.exists
            THEN IF HasKey(config, "test_prompts") THEN config.test_prompts
                 ELSE test_prompts
            ELSE TEST_PROMPTS
    /\ TIMEOUTS' =
         IF config.exists /\ HasKey(config, "timeouts")
            THEN Update(TIMEOUTS, config.timeouts)
            ELSE TIMEOUTS
    /\ UNCHANGED <<results, attempts, fs, created, last, report>>

\* one pass of the loop body of run_tests (and of run_single_model_test):
\* result = self.test_model(model, prompt); self.results.append(result)
TestModel(model, prompt, x, fault) ==
    /\ pc = "testing"
    /\ Len(attempts) < MaxResults
    /\ LET name == created + 1
           t    == test_model(model, prompt, x, fault, name)
           run  == t.eval.exec
       IN  /\ attempts' = Append(attempts, <<model, prompt.text>>)
           /\ results' = IF t.raised = NoExc THEN Append(results, t.value) ELSE results
           /\ pc' = IF t.raised = NoExc THEN pc ELSE "crashed"
           /\ created' = IF run.called /\ run.body.made THEN name ELSE created
           /\ fs' = IF run.called /\ run.body.left THEN fs \cup {name} ELSE fs
           /\ last' = [model |-> model, prompt |-> prompt.text, success |-> x.success,
                       raised |-> t.raised, eval |-> t.eval]
    /\ UNCHANGED <<TIMEOUTS, test_prompts, report>>

\* generate_html_report -> _create_html_report -> _calculate_statistics,
\* _generate_ranking_table; order is the order in which the set `models` is
\* iterated
GenerateHtmlReport(order) ==
    /\ pc \in {"testing", "reported"}
    /\ results # <<>>
    /\ pc' = "reported"
    /\ LET stats == _calculate_statistics(results)
       IN  report' = [kind |-> "html", stats |-> stats,
                      ranking |-> IF stats.raised = NoExc
                                     THEN _generate_ranking_table(stats, order)
                                     ELSE <<>>]
    /\ UNCHANGED <<TIMEOUTS, test_prompts, results, attempts, fs, created, last>>

\* compare_models(model_names) -> _generate_comparison_report
CompareModels(model_names) ==
    /\ pc \in {"testing", "reported"}
    /\ LET filtered_results == SelectSeq(results, LAMBDA r : r.model_name \in model_names)
       IN  /\ filtered_results # <<>>
           /\ report' = [kind |-> "comparison", names |-> model_names,
                         stats |-> _generate_comparison_report(filtered_results,
                                                               model_names)]
    /\ pc' = "reported"
    /\ UNCHANGED <<TIMEOUTS, test_prompts, results, attempts, fs, created, last>>

\* ReportGenerator(config).generate_html_report(results): _calculate_statistics
\* and _generate_ranking_table; order is the order in which the set `models`
\* is iterated
GenerateStatistics(config, order) ==
    /\ pc \in {"testing", "reported"}
    /\ results # <<>>
    /\ pc' = "reported"
    /\ LET stats == ReportGenerator_calculate_statistics(results, config)
       IN  report' = [kind |-> "generator", config |-> config, stats |-> stats,
                      ranking |-> ReportGenerator_generate_ranking_table(stats, order)]
    /\ UNCHANGED <<TIMEOUTS, test_prompts, results, attempts, fs, created, last>>

Next ==
    \/ \E config \in ConfigFiles : LoadCustomConfig(config)
    \/ \E m \in ModelSet : \E a \in ModelInputs(m, test_prompts) :
          TestModel(m, test_prompts[a[1]], a[2], a[3])
    \/ \E order \in Orders(ModelsOf(results)) : GenerateHtmlReport(order)
    \/ \E names \in {ModelSet, {Models[1]}} : CompareModels(names)
    \/ \E order \in Orders(ModelsOf(results)) : GenerateStatistics(DEFAULT_CONFIG, order)

Spec == Init /\ [][Next]_vars

(***************************************************************************)
(* The report stage on the results of a finished run                       *)
(***************************************************************************)
\* cap on the number of records of a finished run
MaxReportLen == 4

\* the attempts of the finished runs: (model, index of the prompt, exchange)
ReportAttempts ==
    {<<Models[1], 1, FailedExchange(1)>>,
     <<Models[1], 1, Reply("none", CodeFull, 1)>>,
     <<Models[1], 2, Reply("none", CodeFull, 1)>>,
     <<Models[2], 1, FailedExchange(1)>>,
     <<Models[2], 1, Reply("none", CodeOk, 1)>>,
     <<Models[2], 1, Reply("none", CodeFails, 1)>>}

ReportRuns == UNION {[1..n -> ReportAttempts] : n \in 1..MaxReportLen}

\* the calls of test_model that run_tests made on the attempts `run`
ReportRun(run) ==
    [i \in DOMAIN run |->
        test_model(run[i][1], TEST_PROMPTS[run[i][2]], run[i][3], "none",
                   Cardinality({j \in 1..(i - 1) : run[j][3].success}) + 1)]

\* the state in which run_tests returns
ReportInit ==
    \E run \in ReportRuns :
        LET calls == ReportRun(run)
            n     == Len(run)
        IN  /\ pc = "testing"
            /\ TIMEOUTS = DefaultTIMEOUTS
            /\ test_prompts = TEST_PROMPTS
            /\ results = [i \in DOMAIN run |-> calls[i].value]
            /\ attempts = [i \in DOMAIN run |-> <<run[i][1], TEST_PROMPTS[run[i][2]].text>>]
            /\ fs = {}
            /\ created = Cardinality({j \in DOMAIN run : run[j][3].success})
            /\ last = [model |-> run[n][1], prompt |-> TEST_PROMPTS[run[n][2]].text,
                       success |-> run[n][3].success, raised |-> calls[n].raised,
                       eval |-> calls[n].eval]
            /\ report = NoReport

ReportNext ==
    \/ \E order \in Orders(ModelsOf(results)) : GenerateHtmlReport(order)
    \/ \E names \in {ModelSet, {Models[1]}} : CompareModels(names)
    \/ \E config \in GeneratorConfigs, order \in Orders(ModelsOf(results)) :
          GenerateStatistics(config, order)

ReportSpec == ReportInit /\ [][ReportNext]_vars

(***************************************************************************)
(* CodeEvaluator on texts                                                  *)
(*                                                                         *)
(* A text is the sequence of its characters; an index is the Python index  *)
(* plus one, and 0 stands for the -1 of str.find.                          *)
(***************************************************************************)
\* cap on the number of pieces a response text is put together from
MaxTextLen == 4

\* the character U+0060, which a string of this language cannot hold
Backtick == "BACKTICK"

Fence == <<Backtick, Backtick, Backtick>>

Python == <<"p", "y", "t", "h", "o", "n">>

Py == <<"p", "y">>

\* '```python'
TaggedFence == Fence \o Python

NewLine == <<"\n">>

\* the characters of the texts that str.strip removes
Whitespace == {" ", "\n"}

MinOf(S) == CHOOSE i \in S : \A j \in S : i <= j

MaxOf(S) == CHOOSE i \in S : \A j \in S : j <= i

\* s[i - 1:].startswith(sub)
StartsAt(s, sub, i) ==
    /\ i + Len(sub) - 1 <= Len(s)
    /\ \A k \in 1..Len(sub) : s[i + k - 1] = sub[k]

\* s.find(sub, start - 1) + 1
find(s, sub, start) ==
    LET hits == {i \in start..(Len(s) - Len(sub) + 1) : StartsAt(s, sub, i)}
    IN  IF hits = {} THEN 0 ELSE MinOf(hits)

\* sub in s
In(sub, s) == find(s, sub, 1) # 0

\* s.strip()
strip(s) ==
    LET ink == {i \in DOMAIN s : s[i] \notin Whitespace}
    IN  IF ink = {} THEN <<>> ELSE SubSeq(s, MinOf(ink), MaxOf(ink))

\* s.split(sep, 1)
split_once(s, sep) ==
    LET i == find(s, sep, 1)
    IN  IF i = 0 THEN <<s>>
        ELSE <<SubSeq(s, 1, i - 1), SubSeq(s, i + Len(sep), Len(s))>>

\* s.split(sep)
RECURSIVE split(_, _)
split(s, sep) ==
    LET i == find(s, sep, 1)
    IN  IF i = 0 THEN <<s>>
        ELSE <<SubSeq(s, 1, i - 1)>> \o split(SubSeq(s, i + Len(sep), Len(s)), sep)

\* sep.join(lines)
RECURSIVE join(_, _)
join(lines, sep) ==
    IF lines = <<>> THEN <<>>
    ELSE IF Len(lines) = 1 THEN lines[1]
    ELSE lines[1] \o sep \o join(Tail(lines), sep)

\* the upper-case letters of the texts
LowerCase == [c \in {"P", "A"} |-> IF c = "P" THEN "p" ELSE "a"]

\* s.lower()
lower(s) == [i \in DOMAIN s |-> IF s[i] \in DOMAIN LowerCase THEN LowerCase[s[i]] ELSE s[i]]

\* the blocks of extract_python_code from `if '```' in response_text:` on
GenericBlock(response_text) ==
    IF In(Fence, response_text)
    THEN LET parts == split(response_text, Fence)
             \* the loop returns in its pass i = 1
             part  == parts[2]
             lines == split(strip(part), NewLine)
         IN  IF lines # <<>> /\ \E lang \in {Python, Py} : In(lang, lower(lines[1]))
             THEN strip(join(Tail(lines), NewLine))
             ELSE strip(part)
    ELSE strip(response_text)

\* an extraction that takes the first region whatever its tag
extract_python_code_earliest(response_text) == GenericBlock(response_text)

\* an extraction that returns the whole text when a marker has no later marker
extract_python_code_unclosed(response_text) ==
    LET open == find(response_text, Fence, 1)
    IN  IF open # 0 /\ find(response_text, Fence, open + 3) = 0
        THEN strip(response_text)
        ELSE LET start == find(response_text, TaggedFence, 1) + 9
                 end   == find(response_text, Fence, start)
             IN  IF In(TaggedFence, response_text) /\ end # 0
                 THEN strip(SubSeq(response_text, start, end - 1))
                 ELSE GenericBlock(response_text)

extract_python_code(response_text) ==
    LET start == find(response_text, TaggedFence, 1) + 9
        end   == find(response_text, Fence, start)
    IN  IF In(TaggedFence, response_text) /\ end # 0
        THEN strip(SubSeq(response_text, start, end - 1))
        ELSE GenericBlock(response_text)

\* found_keywords that compares the keywords as they are written
found_keywords_as_written(code, expected_keywords) ==
    SelectSeq(expected_keywords, LAMBDA kw : In(kw, code))

\* found_keywords = [kw.lower() for kw in expected_keywords
\*                   if kw.lower() in code_lower]
found_keywords(code, expected_keywords) ==
    LET code_lower == lower(code)
    IN  SelectSeq([i \in DOMAIN expected_keywords |-> lower(expected_keywords[i])],
                  LAMBDA kw : In(kw, code_lower))

\* the keyword part of evaluator.py's evaluate_code(code, prompt_data, ...)
keyword_evaluation(code, prompt_data) ==
    LET expected_keywords == IF HasKey(prompt_data, "expected_keywords")
                                 THEN prompt_data.expected_keywords ELSE <<>>
        found == found_keywords(code, expected_keywords)
        match == keyword_match(Len(found), Len(expected_keywords))
    IN  [contains_expected_keywords |-> match.contains_expected_keywords,
         keyword_match_ratio |-> match.keyword_match_ratio,
         found_keywords |-> found,
         expected_keywords |-> expected_keywords]

(***************************************************************************)
(* The evaluator called on its own: texts and prompts                      *)
(***************************************************************************)
\* the pieces of a response text
Pieces == {Fence, TaggedFence, NewLine, <<" ">>, <<"a">>, Py, <<Backtick>>, <<"P">>}

RECURSIVE Concat(_)
Concat(ps) == IF ps = <<>> THEN <<>> ELSE ps[1] \o Concat(Tail(ps))

\* the texts of at most n pieces
RECURSIVE TextsOf(_)
TextsOf(n) ==
    IF n = 0 THEN {<<>>}
    ELSE LET shorter == TextsOf(n - 1)
         IN  shorter \cup {t \o p : t \in shorter, p \in Pieces}

\* responses with two blocks, with a tag line that goes on, with a code line
\* that holds the letters of a tag
LongTexts ==
    {Concat(<<Fence, NewLine, <<"a">>, NewLine, Fence, NewLine,
              TaggedFence, NewLine, <<"b">>, NewLine, Fence>>),
     Concat(<<Fence, NewLine, <<"a">>, NewLine, Fence, NewLine,
              Fence, NewLine, <<"b">>, NewLine, Fence>>),
     Concat(<<<<"a">>, NewLine, TaggedFence, NewLine, <<"b">>, <<" ">>, <<"b">>,
              NewLine, Fence, NewLine, <<"a">>>>),
     Concat(<<TaggedFence, <<"3">>, NewLine, <<"b">>, NewLine, Fence>>),
     Concat(<<Fence, <<"P">>, <<"y">>, NewLine, <<"b">>, NewLine, Fence>>),
     Concat(<<Fence, NewLine, <<"n">>, <<"u">>, <<"m">>, Py, NewLine, <<"b">>,
              NewLine, Fence>>)}

ResponseTexts == TextsOf(MaxTextLen) \cup LongTexts

\* snippets and the expected_keywords of prompts.json
Snippets == {<<>>, <<"a">>, <<"P", "a">>, <<"p", "a", "p">>}

Keywords == {<<"a">>, <<"A">>, <<"p", "a">>, <<"y">>}

MaxKeywords == 2

RECURSIVE KeywordLists(_)
KeywordLists(n) ==
    IF n = 0 THEN {<<>>}
    ELSE LET shorter == KeywordLists(n - 1)
         IN  shorter \cup {Append(ks, k) : ks \in shorter, k \in Keywords}

\* prompt_data with and without the key expected_keywords
PromptData ==
    {[name |-> "prompt"]} \cup
    {[name |-> "prompt", expected_keywords |-> ks] : ks \in KeywordLists(MaxKeywords)}

\* prompts of main.py's evaluate_code: with keywords of prompt_keywords, with
\* others only, with none
MainPrompts ==
    {[text |-> "write a function", kw |-> {"function"}],
     [text |-> "a class for the user", kw |-> {"class", "user"}],
     [text |-> "sort the list", kw |-> {"sort"}],
     [text |-> "", kw |-> {}]}

\* a CodeEvaluator and the arguments of the call that is made on it
EvaluatorInit ==
    /\ pc = "evaluator"
    /\ TIMEOUTS = DefaultTIMEOUTS
    /\ test_prompts = DefaultPrompts
    /\ results = <<>>
    /\ attempts = <<>>
    /\ fs = {}
    /\ created = 0
    /\ report = NoReport
    /\ \/ \E response_text \in ResponseTexts :
             last = [call |-> "none", next |-> "extract_python_code",
                     response_text |-> response_text]
       \/ \E code \in Snippets, prompt_data \in PromptData :
             last = [call |-> "none", next |-> "keyword_evaluation",
                     code |-> code, prompt_data |-> prompt_data]
       \/ \E code \in Codes \cup {CodeFull}, prompt \in MainPrompts :
             last = [call |-> "none", next |-> "evaluate_code",
                     code |-> code, prompt |-> prompt]

\* CodeEvaluator.extract_python_code, and once more on what it returned
ExtractPythonCode ==
    /\ pc = "evaluator"
    /\ last.next = "extract_python_code"
    /\ pc' = "returned"
    /\ LET code == extract_python_code(last.response_text)
       IN  last' = [call |-> "extract_python_code",
                    response_text |-> last.response_text,
                    value |-> code, again |-> extract_python_code(code)]
    /\ UNCHANGED <<TIMEOUTS, test_prompts, results, attempts, fs, created, report>>

\* evaluator.py: CodeEvaluator.evaluate_code, its keyword fields
EvaluateKeywords ==
    /\ pc = "evaluator"
    /\ last.next = "keyword_evaluation"
    /\ pc' = "returned"
    /\ last' = [call |-> "keyword_evaluation", code |-> last.code,
                prompt_data |-> last.prompt_data,
                value |-> keyword_evaluation(last.code, last.prompt_data)]
    /\ UNCHANGED <<TIMEOUTS, test_prompts, results, attempts, fs, created, report>>

\* main.py: CodeEvaluator.evaluate_code
EvaluateCode ==
    /\ pc = "evaluator"
    /\ last.next = "evaluate_code"
    /\ LET name == created + 1
           ev   == evaluate_code(last.code, last.prompt, 1, "none", name)
       IN  /\ pc' = IF ev.raised = NoExc THEN "returned" ELSE "crashed"
           /\ last' = [call |-> "evaluate_code", code |-> last.code.name,
                       prompt |-> last.prompt, raised |-> ev.raised,
                       value |-> IF ev.raised = NoExc THEN ev.value
                                 ELSE [code |-> last.code.name]]
           /\ created' = IF ev.exec.called /\ ev.exec.body.made THEN name ELSE created
           /\ fs' = IF ev.exec.called /\ ev.exec.body.left THEN fs \cup {name} ELSE fs
    /\ UNCHANGED <<TIMEOUTS, test_prompts, results, attempts, report>>

EvaluatorNext ==
    \/ ExtractPythonCode
    \/ EvaluateKeywords
    \/ EvaluateCode

EvaluatorSpec == EvaluatorInit /\ [][EvaluatorNext]_vars

(***************************************************************************)
(* Properties                                                              *)
(***************************************************************************)
\* the last call of test_model evaluated a snippet
Evaluated == last.model # "none" /\ last.eval.syntax.called

\* the last call of test_model reached check_execution
Executed == Evaluated /\ last.eval.exec.called

LastRun == last.eval.exec

\* the child of the last check_execution ended by itself within the bound
ChildFinished == LastRun.body.spawned /\ LastRun.body.child.dur <= LastRun.body.bound

\* C1: when check_syntax returns false, evaluate_code does not call
\* check_execution: the step creates no temporary file and spawns no child.
C1_NoExecutionWhenSyntaxInvalid ==
    [][(/\ attempts' # attempts
        /\ last'.eval.syntax.called
        /\ last'.eval.syntax.raised = NoExc
        /\ ~last'.eval.syntax.value)
       => (/\ ~last'.eval.exec.called
           /\ created' = created
           /\ fs' = fs)]_vars

C1_Witness ==
    /\ Evaluated
    /\ last.eval.syntax.raised = NoExc
    /\ ~last.eval.syntax.value
    /\ Len(results) = Len(attempts)

\* C2: after check_execution returns, the temporary file it created no longer
\* exists, whichever way the call ended.
C2_TempFileRemoved ==
    (Executed /\ LastRun.body.made) => LastRun.body.file \notin fs

\* C3: after k attempts the result list holds k records, the i-th one the
\* record of the i-th attempt.
C3_OneRecordPerAttempt ==
    /\ Len(results) = Len(attempts)
    /\ \A i \in DOMAIN results :
          /\ results[i].model_name = attempts[i][1]
          /\ results[i].prompt = attempts[i][2]

\* C4: check_syntax never raises: every failure of the parser is the result
\* false.
C4_CheckSyntaxNeverRaises ==
    Evaluated => last.eval.syntax.raised = NoExc

\* C5: check_execution never raises: an exception of its try block is
\* returned as (False, diagnostic text).
C5_CheckExecutionNeverRaises ==
    Executed =>
        /\ LastRun.raised = NoExc
        /\ LastRun.body.exc # NoExc =>
              /\ LastRun.value[1] = FALSE
              /\ LastRun.value[2] =
                    IF LastRun.body.exc = "TimeoutExpired" THEN TimeoutMsg
                    ELSE StrOf(LastRun.body.exc)

C5_Witness ==
    /\ Executed
    /\ LastRun.body.exc \in {"OSError", "FileNotFoundError"}
    /\ ~LastRun.body.spawned
    /\ Len(results) = Len(attempts)

\* a model of the report's input that has records and no successful one
ZeroSuccessModels(res) == {m \in ModelsOf(res) : Successful(OfModel(res, m)) = <<>>}

ReportInput ==
    IF report.kind = "comparison"
        THEN SelectSeq(results, LAMBDA r : r.model_name \in report.names)
        ELSE results

\* C6: aggregation does not raise when a model has no successful attempt, and
\* that model has an aggregate entry whose values are zero. Stated for the
\* inputs in which no record at all is successful, where every model of the
\* input is such a model.
C6_ZeroSuccessModelHasZeroEntry ==
    (report.kind # "none" /\ Successful(ReportInput) = <<>>) =>
        /\ report.stats.raised = NoExc
        /\ \A m \in ZeroSuccessModels(ReportInput) :
              CASE report.kind = "html" ->
                    /\ m \in DOMAIN report.stats.model_scores
                    /\ RatEq(report.stats.model_scores[m].avg_score, Zero)
                    /\ RatEq(report.stats.model_scores[m].success_rate, Zero)
                    /\ RatEq(report.stats.model_scores[m].avg_response_time, Zero)
                [] report.kind = "comparison" ->
                    /\ m \in DOMAIN report.stats.model_stats
                    /\ RatEq(report.stats.model_stats[m].avg_score, Zero)
                    /\ RatEq(report.stats.model_stats[m].success_rate, Zero)
                    /\ RatEq(report.stats.model_stats[m].avg_response_time, Zero)
                [] report.kind = "generator" ->
                    /\ m \in DOMAIN report.stats.model_scores
                    /\ RatEq(report.stats.model_scores[m], Zero)

\* the response times test_model was given for the successful records of rs
MeasuredTimes(rs) ==
    LET succ == Successful(rs) IN [i \in DOMAIN succ |-> succ[i].evaluation.response_time]

\* C7: over records of test_model, the statistics are computed without an
\* exception and each model's average response time is the mean of the
\* response times of its successful attempts.
C7_AverageResponseTime ==
    (report.kind \in {"html", "comparison"} /\ Successful(ReportInput) # <<>>) =>
        /\ report.stats.raised = NoExc
        /\ \A m \in ModelsOf(Successful(ReportInput)) :
              LET entry == IF report.kind = "html" THEN report.stats.model_scores[m]
                           ELSE report.stats.model_stats[m]
              IN  RatEq(entry.avg_response_time,
                        Mean(MeasuredTimes(OfModel(ReportInput, m))))

\* C8: check_execution returns True exactly when the child ended with status
\* zero within the bound; the text is then its standard output, and its
\* standard error when it ended with another status.
C8_SuccessIffExitZero ==
    Executed =>
        /\ LastRun.value[1] <=> (ChildFinished /\ LastRun.body.child.exit = 0)
        /\ LastRun.value[1] => LastRun.value[2] = LastRun.body.child.out
        /\ (ChildFinished /\ LastRun.body.child.exit # 0)
              => LastRun.value[2] = LastRun.body.child.err

\* the child of the last check_execution was still running at the bound
ChildOverran == LastRun.body.spawned /\ LastRun.body.child.dur > LastRun.body.bound

C10_BoundIsConfigured ==
    (Executed /\ LastRun.body.spawned) => LastRun.body.bound = TIMEOUTS.execution_timeout

\* C11: check_syntax returns false for the empty string and for a string of
\* whitespace only: a record whose extracted code is empty has syntax_valid
\* false.
C11_EmptyCodeIsInvalid ==
    \A i \in DOMAIN results :
        (results[i].success /\ results[i].extracted_code = CodeEmpty.name)
            => ~results[i].evaluation.syntax_valid

(***************************************************************************)
(* Properties of scoring, aggregation and ranking                          *)
(***************************************************************************)
\* the report is the one of a ReportGenerator
IsGeneratorReport == report.kind = "generator"

\* the report is the one of a ReportGenerator whose config has a weight table
HasWeightTable == IsGeneratorReport /\ HasKey(report.config, "evaluation_weights")

\* the quality metrics that the weight table names
QualitySignals == {"has_function_def", "has_error_handling", "has_docstring"}

\* the boolean fields of an evaluation
BooleanSignals == {"syntax_valid", "runs_without_error", "contains_expected_keywords"}

\* weight times the indicator of the signal `key` of evaluation e, zero when
\* e has no signal of that name
SignalTerm(e, key, weight) ==
    IF key \in (BooleanSignals \cup RatioSignals) \cap DOMAIN e
        THEN Weighted(e, key, weight)
    ELSE IF key \in QualitySignals \cap DOMAIN e.quality_metrics
        THEN Rat(Points(e.quality_metrics[key], weight), 1)
    ELSE Zero

\* the sum of SignalTerm over every key of the weight table, in tenths
WeightedSumOfSignals(e, weights) ==
    LET RECURSIVE Sum(_)
        Sum(ks) == IF ks = {} THEN Zero
                   ELSE LET k == CHOOSE k \in ks : TRUE
                        IN  RatAdd(SignalTerm(e, k, weights[k]), Sum(ks \ {k}))
    IN  Sum(DOMAIN weights)

\* C12: the score of an evaluation is the sum, over the keys of the weight
\* table, of weight times the signal of that name, where has_function_def,
\* has_error_handling and has_docstring are signals of the evaluation.
C12_ScoreIsWeightedSumOfSignals ==
    HasWeightTable =>
        \A s \in report.stats.scores :
            RatEq(s.score,
                  Tenths(WeightedSumOfSignals(s.evaluation, report.config.evaluation_weights)))

\* the sum of all weights of a table, in tenths
WeightSum(weights) ==
    LET RECURSIVE Sum(_)
        Sum(ks) == IF ks = {} THEN 0
                   ELSE LET k == CHOOSE k \in ks : TRUE IN weights[k] + Sum(ks \ {k})
    IN  Sum(DOMAIN weights)

NonNegative(weights) == \A k \in DOMAIN weights : weights[k] >= 0

\* every signal that evaluate_code reports is set in e; with non-negative
\* weights no evaluation scores higher than such an e
AllSignalsSet(e) ==
    /\ e.syntax_valid /\ e.runs_without_error /\ e.contains_expected_keywords
    /\ RatEq(e.keyword_match_ratio, Rat(1, 1))
    /\ \A k \in QualitySignals : e.quality_metrics[k]
    /\ e.quality_metrics.imports_used > 0
    /\ e.quality_metrics.line_count > 0

\* C13: with non-negative weights every score lies between zero and the sum
\* of all weights of the table, and the evaluation with every signal set
\* scores exactly that sum.
C13_MaximumIsSumOfWeights ==
    (HasWeightTable /\ NonNegative(report.config.evaluation_weights)) =>
        \A s \in report.stats.scores :
            LET top == Tenths(Rat(WeightSum(report.config.evaluation_weights), 1))
            IN  /\ ~RatGt(Zero, s.score)
                /\ ~RatGt(s.score, top)
                /\ AllSignalsSet(s.evaluation) => RatEq(s.score, top)

\* C14: a generator whose config has no weight table scores every evaluation
\* as the default table of DEFAULT_CONFIG does.
C14_FallbackIsDefaultTable ==
    (IsGeneratorReport /\ ~HasKey(report.config, "evaluation_weights")) =>
        \A s \in report.stats.scores :
            RatEq(s.score, Tenths(_calculate_score(s.evaluation, DEFAULT_CONFIG)))

\* the report r scores with the default weights: the fixed ones of the HTML
\* and comparison reports, or a generator constructed with DEFAULT_CONFIG
ScoresWithDefaults(r) ==
    \/ r.kind \in {"html", "comparison"}
    \/ r.kind = "generator" /\ r.config = DEFAULT_CONFIG

\* C15: the score of a stored evaluation is the same whenever and on whichever
\* path it is computed: two reports made one after the other on the same
\* results give every evaluation they both score the same score.
C15_SameScoreOnEveryPath ==
    [][(/\ ScoresWithDefaults(report)
        /\ ScoresWithDefaults(report')
        /\ results' = results)
       => \A a \in report.stats.scores, b \in report'.stats.scores :
             a.evaluation = b.evaluation => RatEq(a.score, b.score)]_vars

\* the entry of model m in the per-model statistics of the report
HasEntry(m) ==
    IF report.kind = "comparison" THEN m \in DOMAIN report.stats.model_stats
    ELSE m \in DOMAIN report.stats.model_scores

Entry(m) ==
    IF report.kind = "comparison" THEN report.stats.model_stats[m]
    ELSE report.stats.model_scores[m]

\* successful attempts / all attempts * 100 of model m
SuccessRateOf(res, m) ==
    Rat(Len(Successful(OfModel(res, m))) * 100, Len(OfModel(res, m)))

\* C16: the statistics give for every model of the input the success_rate
\* successful / total * 100, total counting the failed records too.
C16_SuccessRate ==
    report.kind \in {"html", "comparison"} =>
        /\ report.stats.raised = NoExc
        /\ \A m \in ModelsOf(ReportInput) :
              /\ HasEntry(m)
              /\ RatEq(Entry(m).success_rate, SuccessRateOf(ReportInput, m))

\* the score the path of the report gives evaluation e, in tenths
PathScore(e) ==
    CASE report.kind = "html" -> Rat(MainScore(e) * 10, 1)
      [] report.kind = "comparison" -> Rat(ComparisonScore(e) * 10, 1)
      [] report.kind = "generator" -> _calculate_score(e, report.config)

\* the average score of the entry of model m, in tenths
AverageScoreOf(m) ==
    IF report.kind = "generator" THEN Entry(m)
    ELSE Rat(Entry(m).avg_score.num * 10, Entry(m).avg_score.den)

\* C17: for every model of the input the average score is the mean of the
\* scores of its successful attempts only, and 0 when it has none.
C17_AverageScore ==
    report.kind # "none" =>
        /\ report.stats.raised = NoExc
        /\ \A m \in ModelsOf(ReportInput) :
              LET evals == Evaluations(Successful(OfModel(ReportInput, m)))
              IN  /\ HasEntry(m)
                  /\ RatEq(AverageScoreOf(m),
                           MeanRat([i \in DOMAIN evals |-> PathScore(evals[i])]))

\* the report has a ranking table
HasRanking == report.kind \in {"html", "generator"} /\ report.stats.raised = NoExc

\* the average score of row i of the ranking
RowScore(i) ==
    IF report.kind = "generator" THEN report.ranking[i].data
    ELSE report.ranking[i].data.avg_score

\* C18: the ranking lists every model that has an average score once, each
\* row's score is at least the next row's, and row i has position i.
C18_RankingDescending ==
    HasRanking =>
        /\ Len(report.ranking) = Cardinality(DOMAIN report.stats.model_scores)
        /\ {report.ranking[i].model : i \in DOMAIN report.ranking}
              = DOMAIN report.stats.model_scores
        /\ \A i \in DOMAIN report.ranking :
              /\ report.ranking[i].position = i
              /\ i < Len(report.ranking) => ~RatGt(RowScore(i + 1), RowScore(i))

C18_Witness ==
    /\ HasRanking
    /\ Len(report.ranking) = 2
    /\ RatGt(RowScore(1), RowScore(2))
    /\ report.ranking[1].model = Models[2]

\* the place of a model name in lexicographic order
NameRank(m) == CHOOSE i \in DOMAIN Models : Models[i] = m

\* C19: of two rows with equal average score the one with the higher
\* success_rate comes first, and with equal success_rate the one with the
\* smaller name.
C19_TieBreak ==
    HasRanking =>
        \A i \in DOMAIN report.ranking :
            (i < Len(report.ranking) /\ RatEq(RowScore(i), RowScore(i + 1))) =>
                LET a == SuccessRateOf(results, report.ranking[i].model)
                    b == SuccessRateOf(results, report.ranking[i + 1].model)
                IN  \/ RatGt(a, b)
                    \/ /\ RatEq(a, b)
                       /\ NameRank(report.ranking[i].model)
                             < NameRank(report.ranking[i + 1].model)

\* res with two adjacent records exchanged; every permutation is a product
\* of such exchanges
Swaps(res) ==
    {[res EXCEPT ![i] = res[i + 1], ![i + 1] = res[i]] : i \in 1..(Len(res) - 1)}

\* C20: the report of a permutation of the results has the same per-model
\* aggregates and the same ranking sequence.
C20_OrderIndependent ==
    IsGeneratorReport =>
        \A p \in Swaps(results) \cup {results}, order \in Orders(ModelsOf(results)) :
            LET stats   == ReportGenerator_calculate_statistics(p, report.config)
                ranking == ReportGenerator_generate_ranking_table(stats, order)
            IN  /\ DOMAIN stats.model_scores = DOMAIN report.stats.model_scores
                /\ \A m \in DOMAIN stats.model_scores :
                      RatEq(stats.model_scores[m], report.stats.model_scores[m])
                /\ RatEq(stats.success_rate, report.stats.success_rate)
                /\ [i \in DOMAIN ranking |-> ranking[i].model]
                      = [i \in DOMAIN report.ranking |-> report.ranking[i].model]

\* the last call was the keyword part of evaluator.py's evaluate_code
KeywordCall == last.call = "keyword_evaluation"

\* the expected keywords of the prompt of the last call
ExpectedOf ==
    IF HasKey(last.prompt_data, "expected_keywords")
        THEN last.prompt_data.expected_keywords ELSE <<>>

\* the last call was main.py's evaluate_code and it returned
EvaluateCodeReturned == last.call = "evaluate_code" /\ last.raised = NoExc

\* C21: when the prompt expects no keyword (the sequence is empty or the key
\* is absent; in main.py, no word of prompt_keywords is in the prompt),
\* evaluate_code reports keyword_match_ratio 1.0 and contains_expected_keywords
\* true, for every snippet.
C21_NoExpectedKeywordIsFullMatch ==
    /\ (KeywordCall /\ ExpectedOf = <<>>) =>
          /\ last.value.contains_expected_keywords
          /\ RatEq(last.value.keyword_match_ratio, Rat(1, 1))
    /\ (EvaluateCodeReturned /\ last.prompt.kw \cap prompt_keywords = {}) =>
          /\ last.value.contains_expected_keywords
          /\ RatEq(last.value.keyword_match_ratio, Rat(1, 1))

\* a non-empty snippet was evaluated for a prompt without the key
C21_Witness ==
    /\ KeywordCall
    /\ ~HasKey(last.prompt_data, "expected_keywords")
    /\ last.code # <<>>
    /\ last.value.contains_expected_keywords

\* the positions of the expected keywords that occur in the snippet, case
\* ignored
FoundPositions ==
    {i \in DOMAIN ExpectedOf : In(lower(ExpectedOf[i]), lower(last.code))}

\* C22 (as the code has it): when the expected-keyword sequence is non-empty,
\* keyword_match_ratio is the number of its entries that occur in the snippet,
\* case ignored and an entry that is repeated counted every time, divided by
\* the number of entries; it lies in [0,1], and contains_expected_keywords is
\* true exactly when some entry occurs.
C22_RatioCountsEveryEntry ==
    (KeywordCall /\ ExpectedOf # <<>>) =>
        /\ RatEq(last.value.keyword_match_ratio,
                 Rat(Cardinality(FoundPositions), Len(ExpectedOf)))
        /\ ~RatGt(Zero, last.value.keyword_match_ratio)
        /\ ~RatGt(last.value.keyword_match_ratio, Rat(1, 1))
        /\ last.value.contains_expected_keywords <=> FoundPositions # {}

\* a keyword written in upper case and expected twice was found twice
C22_Witness ==
    /\ KeywordCall
    /\ Len(ExpectedOf) = 2
    /\ lower(ExpectedOf[1]) = lower(ExpectedOf[2])
    /\ ExpectedOf[1] # lower(ExpectedOf[1])
    /\ FoundPositions = {1, 2}

\* C22 (as stated): the ratio is the size of the set of found keywords divided
\* by the number of expected keywords.
C22_RatioOfFoundSet ==
    (KeywordCall /\ ExpectedOf # <<>>) =>
        RatEq(last.value.keyword_match_ratio,
              Rat(Cardinality(Range(last.value.found_keywords)), Len(ExpectedOf)))

\* the last call was extract_python_code
ExtractCall == last.call = "extract_python_code"

\* the index of the first fence marker of the response, 0 if it has none
FirstFence == find(last.response_text, Fence, 1)

\* the index of the first fence marker after the first one, 0 if there is none
SecondFence == find(last.response_text, Fence, FirstFence + 3)

\* a tag of the language under test follows the fence marker at index i
TaggedAt(i) ==
    /\ StartsAt(last.response_text, Fence, i)
    /\ StartsAt(lower(last.response_text), Py, i + 3)

\* the end of the line the first fence marker is on, 0 if the text ends in it
FirstFenceLineEnd == find(last.response_text, NewLine, FirstFence)

\* the first fence marker after the line of the first one
FenceAfterLine == find(last.response_text, Fence, FirstFenceLineEnd + 1)

\* the response begins its first block with ```python or ```py, the opening
\* line ends, a fence marker follows it, and no other ```python is in the text
TaggedBlock ==
    /\ FirstFence # 0
    /\ \E tag \in {Python, Py} : StartsAt(last.response_text, tag, FirstFence + 3)
    /\ FirstFenceLineEnd # 0
    /\ SecondFence # 0
    /\ SecondFence = FenceAfterLine
    /\ find(last.response_text, TaggedFence, FirstFence + 1) = 0

\* C23: when the response has a fence whose opening line carries the tag
\* python or py, extract_python_code returns the text after the end of that
\* opening line and before the next fence marker, stripped; nothing of the
\* opening line is in the result.
C23_OpeningLineDropped ==
    (ExtractCall /\ TaggedBlock) =>
        last.value = strip(SubSeq(last.response_text, FirstFenceLineEnd + 1,
                                  SecondFence - 1))

\* the text between the first two fence markers
FirstRegion == SubSeq(last.response_text, FirstFence + 3, SecondFence - 1)

\* the response has two fence markers and no marker is followed by a tag
UntaggedBlock ==
    /\ FirstFence # 0
    /\ SecondFence # 0
    /\ \A i \in DOMAIN last.response_text : ~TaggedAt(i)

\* C24: when the response has fence markers but no language-tagged fence,
\* extract_python_code returns the stripped text between the first two markers,
\* without its first line only if that line names the language (is python or
\* py); a first line of code that holds the letters of a tag is kept.
C24_OnlyTagLineRemoved ==
    (ExtractCall /\ UntaggedBlock) =>
        LET lines == split(strip(FirstRegion), NewLine)
        IN  last.value = IF strip(lower(lines[1])) \in {Python, Py}
                             THEN strip(join(Tail(lines), NewLine))
                             ELSE strip(FirstRegion)

\* the index of the first ```python that has a fence marker after it, and of
\* that marker; 0 if there is none
FirstTag == find(last.response_text, TaggedFence, 1)

TagClose == IF FirstTag = 0 THEN 0 ELSE find(last.response_text, Fence, FirstTag + 9)

\* the text after the first fence marker up to the next one or the end
FirstPart ==
    SubSeq(last.response_text, FirstFence + 3,
           IF SecondFence = 0 THEN Len(last.response_text) ELSE SecondFence - 1)

\* C25 (as the code has it): extract_python_code returns the stripped text
\* between the first ```python and the fence marker after it when there is
\* such a pair, also when an untagged block stands before it; otherwise it
\* returns text of the first fenced region and of no later one.
C25_TaggedBlockWins ==
    ExtractCall =>
        IF TagClose # 0
            THEN last.value = strip(SubSeq(last.response_text, FirstTag + 9, TagClose - 1))
        ELSE IF FirstFence # 0 THEN In(last.value, FirstPart)
        ELSE last.value = strip(last.response_text)

\* an untagged block stands before a ```python block and the result is the
\* content of the second
C25_Witness ==
    /\ ExtractCall
    /\ TagClose # 0
    /\ SecondFence # 0
    /\ SecondFence < FirstTag
    /\ last.value # <<>>
    /\ ~In(last.value, FirstRegion)

\* C25 (as stated): of several fenced blocks the earliest is returned, also
\* when it is untagged and a later one carries the tag.
C25_EarliestBlockWins ==
    (ExtractCall /\ Len(split(last.response_text, Fence)) >= 5) =>
        In(last.value, FirstRegion)

\* the response has a fence marker and no marker after it
Unclosed == FirstFence # 0 /\ SecondFence = 0

\* C26 (as the code has it): when the response has an opening fence marker
\* and no closing one, extract_python_code returns the stripped text after the
\* marker, without its first line when that line holds py; the text before the
\* marker is dropped.
C26_UnclosedReturnsTail ==
    (ExtractCall /\ Unclosed) =>
        LET lines == split(strip(FirstPart), NewLine)
        IN  last.value = IF In(Py, lower(lines[1]))
                             THEN strip(join(Tail(lines), NewLine))
                             ELSE strip(FirstPart)

\* an unclosed ```python with text before it and code after it
C26_Witness ==
    /\ ExtractCall
    /\ Unclosed
    /\ FirstFence > 1
    /\ FirstTag = FirstFence
    /\ last.value # <<>>

\* C26 (as stated): with an opening fence marker and no closing one the
\* result is the full input text, stripped.
C26_UnclosedReturnsWholeText ==
    (ExtractCall /\ Unclosed) => last.value = strip(last.response_text)

\* C30: the text extract_python_code returns holds no fence marker, and
\* extract_python_code applied to it returns it unchanged.
C30_NoFenceAndIdempotent ==
    ExtractCall =>
        /\ ~In(Fence, last.value)
        /\ last.again = last.value

\* a response with fence markers whose extracted text still holds a backtick
C30_Witness ==
    /\ ExtractCall
    /\ In(Fence, last.response_text)
    /\ In(<<Backtick>>, last.value)
    /\ last.again = last.value

\* the snippet a record of results names
SnippetOf(r) == CHOOSE c \in Codes \cup {CodeFull} : c.name = r.extracted_code

\* what the prompt of a record expects of prompt_keywords
RelevantOf(r) ==
    LET p == CHOOSE p \in Range(test_prompts) : p.text = r.prompt
    IN  prompt_keywords \cap p.kw

\* the keys the quality analysis fills
MetricKeys ==
    {"line_count", "has_function_def", "has_class_def", "has_docstring",
     "has_comments", "has_error_handling", "imports_used"}

\* the quality metrics and the keyword fields of an evaluation are present
\* and are those of the text and the prompt alone
FromTextAlone(r) ==
    LET e == r.evaluation
        relevant == RelevantOf(r)
        found == relevant \cap SnippetOf(r).kw
    IN  /\ HasKey(e, "quality_metrics")
        /\ HasKey(e, "contains_expected_keywords")
        /\ HasKey(e, "keyword_match_ratio")
        /\ DOMAIN e.quality_metrics = MetricKeys
        /\ \A k \in MetricKeys : e.quality_metrics[k] = SnippetOf(r)[k]
        /\ e.contains_expected_keywords <=> (relevant = {} \/ found # {})
        /\ RatEq(e.keyword_match_ratio,
                 IF relevant = {} THEN Rat(1, 1)
                 ELSE Rat(Cardinality(found), Cardinality(relevant)))

\* C27: the quality metrics and the keyword fields of an evaluation are
\* computed from the extracted text alone: they are present in every
\* evaluation, and two evaluations of the same snippet for the same prompt have
\* the same ones whatever check_syntax returned and however the execution
\* ended.
C27_MetricsFromTextAlone ==
    /\ \A i \in DOMAIN results : results[i].success => FromTextAlone(results[i])
    /\ \A i, j \in DOMAIN results :
          (/\ results[i].success
           /\ results[j].success
           /\ results[i].extracted_code = results[j].extracted_code
           /\ results[i].prompt = results[j].prompt) =>
              /\ results[i].evaluation.quality_metrics
                    = results[j].evaluation.quality_metrics
              /\ results[i].evaluation.contains_expected_keywords
                    = results[j].evaluation.contains_expected_keywords
              /\ results[i].evaluation.keyword_match_ratio
                    = results[j].evaluation.keyword_match_ratio

\* one snippet was evaluated twice for one prompt and ran only once, and a
\* snippet that does not parse has its function definition counted
C27_Witness ==
    /\ Len(results) = 2
    /\ results[1].success /\ results[2].success
    /\ \/ /\ results[1].extracted_code = results[2].extracted_code
          /\ results[1].prompt = results[2].prompt
          /\ results[1].evaluation.runs_without_error
          /\ ~results[2].evaluation.runs_without_error
       \/ /\ ~results[1].evaluation.syntax_valid
          /\ results[1].evaluation.quality_metrics.has_function_def
          /\ results[2].evaluation.syntax_valid

\* C28: in every evaluation evaluate_code returned, runs_without_error true
\* implies syntax_valid true, and when syntax_valid is false
\* runs_without_error is false and execution_output is the empty string.
C28_RunsImpliesValid ==
    \A i \in DOMAIN results :
        results[i].success =>
            LET e == results[i].evaluation
            IN  /\ e.runs_without_error => e.syntax_valid
                /\ ~e.syntax_valid =>
                      /\ ~e.runs_without_error
                      /\ e.execution_output = ""

\* the results hold an evaluation of a snippet that did not parse and one of
\* a snippet that ran
C28_Witness ==
    /\ \E i \in DOMAIN results :
          results[i].success /\ ~results[i].evaluation.syntax_valid
    /\ \E i \in DOMAIN results :
          results[i].success /\ results[i].evaluation.runs_without_error

\* C29: every record of the result list has one of two shapes: with success
\* true it carries an evaluation and the extracted code and no error, with
\* success false an error and a response time and no evaluation; after any
\* number of test_model calls.
C29_TwoRecordShapes ==
    \A i \in DOMAIN results :
        LET r == results[i]
        IN  IF r.success
            THEN /\ HasKey(r, "evaluation")
                 /\ HasKey(r, "extracted_code")
                 /\ ~HasKey(r, "error")
            ELSE /\ HasKey(r, "error")
                 /\ HasKey(r, "response_time")
                 /\ ~HasKey(r, "evaluation")

\* the result list holds a record of each shape
C29_Witness ==
    /\ \E i \in DOMAIN results : results[i].success
    /\ \E i \in DOMAIN results : ~results[i].success
    /\ Len(results) = MaxResults
====
